---- MODULE Spec2Model ----
(***************************************************************************)
(* Model of the solution query engine of app.py: the bitmask codec, the    *)
(* single-pass filtered page scan (_collect_filtered_page), the request    *)
(* token registry (REQUEST_TOKENS under REQUEST_LOCK) and the              *)
(* /api/solutions handler that ties them together.                         *)
(*                                                                         *)
(* Every request is served by its own thread; a thread is one element of   *)
(* Threads and walks through the handler in the steps                      *)
(*   idle -> acquire -> read -> write -> collect -> scan -> done.          *)
(* Names are modelled as lower-case strings; raw query parameters are      *)
(* records [kind, val] so that a missing, a malformed and an integer       *)
(* parameter can be told apart.                                            *)
(***************************************************************************)
EXTENDS Integers, Sequences, FiniteSets, TLC

(***************************************************************************)
(* Bounds of the model                                                     *)
(***************************************************************************)
NumCards == 3
NumTraits == 2
NumThreads == 2
NumPageThreads == 3
MaxLen == 3
LongLen == 130
MaxPage == 4
FineWindow == 2

(***************************************************************************)
(* Program constants                                                       *)
(***************************************************************************)
DISPLAY_LIMIT == 25
MAX_WEIGHT == 4
CANCELLATION_CHECK_INTERVAL == 128
LIMIT_MAX == 100

CardNames == <<"a", "b", "c", "d", "e">>
TraitNames == <<"x", "y", "z", "w">>

\* sorted(CARD_DICT.keys()) and the sorted set of all traits
CARD_LIST == SubSeq(CardNames, 1, NumCards)
TRAIT_LIST == SubSeq(TraitNames, 1, NumTraits)

Threads == 1..NumThreads
PageThreads == 1..NumPageThreads
\* the superseded query and the one that supersedes it
TwoQueries == {1, 2}

Range(s) == {s[i] : i \in 1..Len(s)}

Max(a, b) == IF a >= b THEN a ELSE b
Min(a, b) == IF a <= b THEN a ELSE b

(***************************************************************************)
(* Python integer bit operations on non-negative integers                  *)
(***************************************************************************)
RECURSIVE BitAnd(_, _)
BitAnd(a, b) ==
  IF a = 0 \/ b = 0 THEN 0
  ELSE (a % 2) * (b % 2) + 2 * BitAnd(a \div 2, b \div 2)

RECURSIVE BitOr(_, _)
BitOr(a, b) ==
  IF a = 0 THEN b
  ELSE IF b = 0 THEN a
  ELSE Max(a % 2, b % 2) + 2 * BitOr(a \div 2, b \div 2)

Shl(a, n) == a * (2 ^ n)
Shr(a, n) == a \div (2 ^ n)

\* list.index(x): zero-based position of the first occurrence
Has(list, x) == \E i \in 1..Len(list) : list[i] = x
IndexOf(list, x) ==
  (CHOOSE i \in 1..Len(list) :
     list[i] = x /\ \A j \in 1..(i - 1) : list[j] # x) - 1

(***************************************************************************)
(* BITFILTER LOGIC                                                         *)
(***************************************************************************)
\* for weight_index in range(weight): weight_mask |= (1 << weight_index)
RECURSIVE WeightMask(_)
WeightMask(weight) ==
  IF weight <= 0 THEN 0
  ELSE BitOr(WeightMask(weight - 1), Shl(1, weight - 1))

\* weighted_traits is a sequence of <<trait, weight>>
RECURSIVE traitsMask(_)
traitsMask(weighted_traits) ==
  IF weighted_traits = <<>> THEN 0
  ELSE LET n == Len(weighted_traits)
           trait == weighted_traits[n][1]
           weight == weighted_traits[n][2]
           index == IndexOf(TRAIT_LIST, trait)
       IN BitOr(traitsMask(SubSeq(weighted_traits, 1, n - 1)),
                Shl(WeightMask(weight), index * 4))

CardBitOffByOne(index) == Shl(1, index + 1)

CardBit(index) == Shl(1, index)

RECURSIVE cardsMask(_)
cardsMask(cards) ==
  IF cards = <<>> THEN 0
  ELSE LET n == Len(cards)
           index == IndexOf(CARD_LIST, cards[n])
       IN BitOr(cardsMask(SubSeq(cards, 1, n - 1)), CardBit(index))

filterCardsForbidden(filterMask, cMask) == BitAnd(filterMask, cMask) = 0

filterCardsRequired(filterMask, cMask) == BitAnd(filterMask, cMask) = filterMask

filterTraitsMax1(filterMask, tMask) == BitAnd(filterMask, tMask) = 0

filterTraitsMin2(filterMask, tMask) == BitAnd(filterMask, tMask) = filterMask

filterTraitsMin4(filterMask, tMask) == BitAnd(filterMask, tMask) = filterMask

cardsRequiredFilterMask(requiredCards) == cardsMask(requiredCards)

cardsForbiddenFilterMask(forbiddenCards) == cardsMask(forbiddenCards)

RECURSIVE traitsMax1FilterMask(_)
traitsMax1FilterMask(max1Traits) ==
  IF max1Traits = <<>> THEN 0
  ELSE LET n == Len(max1Traits)
           index == IndexOf(TRAIT_LIST, max1Traits[n])
       IN BitOr(traitsMax1FilterMask(SubSeq(max1Traits, 1, n - 1)),
                Shl(1, index * 4))

\* weight_mask = (1 << 1) | (1 << 2)
Min2WeightMask == BitOr(Shl(1, 1), Shl(1, 2))

RECURSIVE traitMin2FilterMask(_)
traitMin2FilterMask(min2Traits) ==
  IF min2Traits = <<>> THEN 0
  ELSE LET n == Len(min2Traits)
           index == IndexOf(TRAIT_LIST, min2Traits[n])
       IN BitOr(traitMin2FilterMask(SubSeq(min2Traits, 1, n - 1)),
                Shl(Min2WeightMask, index * 4))

\* weight_mask = (1 << 1) | (1 << 2) | (1 << 3) | (1 << 4)
Min4WeightMask == BitOr(BitOr(Shl(1, 1), Shl(1, 2)), BitOr(Shl(1, 3), Shl(1, 4)))

RECURSIVE traitMin4FilterMask(_)
traitMin4FilterMask(min4Traits) ==
  IF min4Traits = <<>> THEN 0
  ELSE LET n == Len(min4Traits)
           index == IndexOf(TRAIT_LIST, min4Traits[n])
       IN BitOr(traitMin4FilterMask(SubSeq(min4Traits, 1, n - 1)),
                Shl(Min4WeightMask, index * 4))

\* number of set bits among the four bits of weight_mask
RECURSIVE BitCount4(_, _)
BitCount4(weight_mask, bit_index) ==
  IF bit_index >= 4 THEN 0
  ELSE (Shr(weight_mask, bit_index) % 2) + BitCount4(weight_mask, bit_index + 1)

RECURSIVE DecodeTraitsFrom(_, _)
DecodeTraitsFrom(tMask, i) ==
  IF i > Len(TRAIT_LIST) THEN <<>>
  ELSE LET weight_mask == Shr(tMask, (i - 1) * 4) % 16
       IN (IF weight_mask # 0
             THEN << <<TRAIT_LIST[i], BitCount4(weight_mask, 0)>> >>
             ELSE <<>>) \o DecodeTraitsFrom(tMask, i + 1)

decodeTraitsMaskReversed(tMask) ==
  LET decoded == DecodeTraitsFrom(tMask, 1)
  IN [i \in 1..Len(decoded) |-> decoded[Len(decoded) + 1 - i]]

decodeTraitsMask(tMask) == DecodeTraitsFrom(tMask, 1)

RECURSIVE DecodeCardsFrom(_, _)
DecodeCardsFrom(cMask, i) ==
  IF i > Len(CARD_LIST) THEN <<>>
  ELSE (IF Shr(cMask, i - 1) % 2 = 1 THEN <<CARD_LIST[i]>> ELSE <<>>)
         \o DecodeCardsFrom(cMask, i + 1)

decodeCardsMask(cMask) == DecodeCardsFrom(cMask, 1)


(***************************************************************************)
(* State                                                                   *)
(***************************************************************************)
VARIABLES
  SOLUTIONS,       \* records yielded by _iter_solutions for the dataset file
  REQUEST_TOKENS,  \* client key -> latest token
  REQUEST_LOCK,    \* 0 when free, else the thread holding the lock
  pc,              \* position of each thread in api_solutions
  args,            \* parsed request parameters of each thread
  prev,            \* value read from REQUEST_TOKENS under the lock
  request_id,      \* liveness token of each thread
  scan,            \* loop state of _collect_filtered_page of each thread
  response,        \* the response returned by each thread
  superseded_at,   \* observer: records fetched when a greater token was recorded
  codec            \* last application of the codec functions

vars == <<SOLUTIONS, REQUEST_TOKENS, REQUEST_LOCK, pc, args, prev, request_id,
          scan, response, superseded_at, codec>>

handlerVars == <<SOLUTIONS, REQUEST_TOKENS, REQUEST_LOCK, pc, args, prev,
                 request_id, scan, response, superseded_at>>

AllThreads == Threads \cup PageThreads

NoResponse == [status |-> 0]
NoArgs == [found |-> FALSE]
NoScan == [pos |-> 0]
NotSuperseded == -1

\* str.lower() on the names of the model
Lower(name) ==
  CASE name = "A" -> "a"
    [] name = "B" -> "b"
    [] name = "X" -> "x"
    [] OTHER -> name

LowerAll(names) == {Lower(n) : n \in names}

\* list(a_set): some ordering of the elements
SetToList(S) == CHOOSE s \in [1..Cardinality(S) -> S] : Range(s) = S

\* raw query parameters
Absent == [kind |-> "absent", val |-> 0]
Bad == [kind |-> "bad", val |-> 0]
IntArg(n) == [kind |-> "int", val |-> n]

ParseLimitUnclamped(raw) ==
  IF raw.kind = "int" THEN raw.val ELSE DISPLAY_LIMIT

\* int(request.args.get("limit", DISPLAY_LIMIT)) with the ValueError fallback,
\* then max(1, min(limit, 100))
ParseLimit(raw) ==
  LET limit == IF raw.kind = "int" THEN raw.val ELSE DISPLAY_LIMIT
  IN Max(1, Min(limit, LIMIT_MAX))

\* int(request.args.get("page", 1)) with the ValueError fallback, then max(1, .)
ParsePage(raw) ==
  LET requested_page == IF raw.kind = "int" THEN raw.val ELSE 1
  IN Max(1, requested_page)

\* REQUEST_TOKENS.get(client_key, 0)
TokenGet(tokens, client_key) ==
  IF client_key \in DOMAIN tokens THEN tokens[client_key] ELSE 0

TokenSetAlone(tokens, client_key, value) == [k \in {client_key} |-> value]

\* REQUEST_TOKENS[client_key] = value
TokenSet(tokens, client_key, value) ==
  [k \in (DOMAIN tokens) \cup {client_key} |->
     IF k = client_key THEN value ELSE tokens[k]]

(***************************************************************************)
(* _collect_filtered_page                                                  *)
(***************************************************************************)
solution_matches_filters(solution, requiredCardsMask, forbiddenCardsMask, traitsMax1Mask, traitsMin2Mask, traitsMin4Mask) ==
  /\ filterCardsRequired(requiredCardsMask, solution.cards)
  /\ filterCardsForbidden(forbiddenCardsMask, solution.cards)
  /\ filterTraitsMax1(traitsMax1Mask, solution.traits)
  /\ filterTraitsMin2(traitsMin2Mask, solution.traits)
  /\ filterTraitsMin4(traitsMin4Mask, solution.traits)

\* entries are <<index, solution>>
decode_solutions(solutions) ==
  [i \in 1..Len(solutions) |->
     [identifier |-> solutions[i][1],
      traits |-> decodeTraitsMask(solutions[i][2].traits),
      cards |-> decodeCardsMask(solutions[i][2].cards)]]

DequeAppendUnbounded(deque, entry, maxlen) == Append(deque, entry)

\* deque(maxlen=limit).append(entry)
DequeAppend(deque, entry, maxlen) ==
  IF Len(deque) >= maxlen THEN Append(Tail(deque), entry) ELSE Append(deque, entry)

\* a name the vocabulary does not hold makes list.index raise ValueError
NamesKnown(a) ==
  /\ \A c \in a.required_cards \cup a.forbidden_cards : Has(CARD_LIST, c)
  /\ \A t \in a.traits_max1 \cup a.traits_min2 \cup a.traits_min4 : Has(TRAIT_LIST, t)

\* locals of _collect_filtered_page before the loop; polled tells whether the
\* last iteration read REQUEST_TOKENS, cancelled whether it returned early
ScanInit(a) ==
  [pos |-> 0,
   total_matches |-> 0,
   requested_entries_masked |-> <<>>,
   tail_entries_masked |-> <<>>,
   requiredCardsMask |-> cardsRequiredFilterMask(SetToList(a.required_cards)),
   forbiddenCardsMask |-> cardsForbiddenFilterMask(SetToList(a.forbidden_cards)),
   traitsMax1Mask |-> traitsMax1FilterMask(SetToList(a.traits_max1)),
   traitsMin2Mask |-> traitMin2FilterMask(SetToList(a.traits_min2)),
   traitsMin4Mask |-> traitMin4FilterMask(SetToList(a.traits_min4)),
   iterations_since_check |-> 0,
   polled |-> FALSE,
   cancelled |-> FALSE]

PollDueLate(count) == count >= CANCELLATION_CHECK_INTERVAL + 1

\* the poll is due once the counter reaches the interval
PollDue(count) == count >= CANCELLATION_CHECK_INTERVAL

\* the tuple returned when the poll finds another token
CancelledResult ==
  [total_matches |-> 0, requested_entries |-> <<>>, tail_entries |-> <<>>,
   cancelled |-> TRUE]

InRequestedSliceOffByOne(match_index, start_index, limit) ==
  start_index < match_index /\ match_index < start_index + limit

\* the match belongs to the requested slice
InRequestedSlice(match_index, start_index, limit) ==
  start_index <= match_index /\ match_index < start_index + limit

CountNotReset(count) == count

\* iterations_since_check after the interval test: reset when a poll is due
CountAfterCheck(count) == IF PollDue(count) THEN 0 ELSE count

StaleOrCurrent(current, token) == current >= token

\* if current != token: the scan gives up
Stale(current, token) == current # token

\* one iteration of the for loop over the records; current is the value the
\* unlocked read of REQUEST_TOKENS returns
ScanIter(st, solution, current, token, start_index, limit) ==
  LET count == st.iterations_since_check + 1
      due == PollDue(count)
      st1 == [st EXCEPT !.pos = @ + 1,
                        !.iterations_since_check = CountAfterCheck(count),
                        !.polled = due]
  IN IF due /\ Stale(current, token)
       THEN [st1 EXCEPT !.cancelled = TRUE]
     ELSE IF ~solution_matches_filters(solution, st.requiredCardsMask,
                 st.forbiddenCardsMask, st.traitsMax1Mask, st.traitsMin2Mask,
                 st.traitsMin4Mask)
       THEN st1
     ELSE LET match_index == st.total_matches
              entry == <<match_index, solution>>
          IN [st1 EXCEPT
                !.total_matches = @ + 1,
                !.requested_entries_masked =
                   IF InRequestedSlice(match_index, start_index, limit)
                     THEN Append(@, entry) ELSE @,
                !.tail_entries_masked = DequeAppend(@, entry, limit)]

\* the tuple returned after the loop
CompletedResult(st) ==
  [total_matches |-> st.total_matches,
   requested_entries |-> decode_solutions(st.requested_entries_masked),
   tail_entries |-> decode_solutions(st.tail_entries_masked),
   cancelled |-> FALSE]

(***************************************************************************)
(* api_solutions after the call of _collect_filtered_page                  *)
(***************************************************************************)
FloorDiv(a, b) == a \div b

\* math.ceil(total_matches / limit)
CeilDiv(a, b) == (a + b - 1) \div b

SelectFromStrict(entries, adjusted_start) ==
  SelectSeq(entries, LAMBDA entry : entry.identifier > adjusted_start)

SelectFrom(entries, adjusted_start) ==
  SelectSeq(entries, LAMBDA entry : entry.identifier >= adjusted_start)

ResultItems(entries) ==
  [i \in 1..Len(entries) |->
     [displayId |-> entries[i].identifier + 1,
      cards |-> entries[i].cards,
      traits |-> [j \in 1..Len(entries[i].traits) |->
                    [name |-> entries[i].traits[j][1],
                     count |-> entries[i].traits[j][2]]]]]

\* the page number reported when nothing matched
EmptyPage == 1

CancelledResponse == [status |-> 200, cancelled |-> TRUE]

ApiResponsePartial(result, limit, requested_page) ==
  [status |-> 200, cancelled |-> result.cancelled, limit |-> limit,
   page |-> requested_page, totalMatches |-> result.total_matches,
   totalPages |-> CeilDiv(result.total_matches, limit),
   results |-> ResultItems(result.requested_entries)]

ApiResponse(result, limit, requested_page) ==
  IF result.cancelled THEN CancelledResponse
  ELSE IF result.total_matches = 0
    THEN [status |-> 200, page |-> EmptyPage, limit |-> limit, totalMatches |-> 0,
          totalPages |-> 0, results |-> <<>>]
  ELSE LET total_pages == CeilDiv(result.total_matches, limit)
           page == Min(requested_page, total_pages)
           entries == IF page = requested_page
                        THEN result.requested_entries
                        ELSE SelectFrom(result.tail_entries, (page - 1) * limit)
       IN [status |-> 200, page |-> page, limit |-> limit,
           totalMatches |-> result.total_matches, totalPages |-> total_pages,
           results |-> ResultItems(entries)]


(***************************************************************************)
(* The handler api_solutions, step by step                                 *)
(***************************************************************************)
Finish(q, resp) ==
  /\ pc' = [pc EXCEPT ![q] = "done"]
  /\ response' = [response EXCEPT ![q] = resp]

Min2AsSupplied(min2, min4) == min2

\* traits_min2 -= traits_min4
Min2WithoutMin4(min2, min4) == min2 \ min4

\* locals of api_solutions after the query parameters are parsed
ParseArgs(req) ==
  LET traits_min4 == LowerAll(req.traits_min4)
      limit == ParseLimit(req.limit)
      requested_page == ParsePage(req.page)
  IN [found |-> TRUE,
      raw |-> req,
      required_cards |-> LowerAll(req.required_cards),
      forbidden_cards |-> LowerAll(req.forbidden_cards),
      traits_min4 |-> traits_min4,
      traits_min2 |-> Min2WithoutMin4(LowerAll(req.traits_min2), traits_min4),
      traits_max1 |-> LowerAll(req.traits_max1),
      limit |-> limit,
      requested_page |-> requested_page,
      start_index |-> (requested_page - 1) * limit,
      client_key |-> req.clientId,
      request_id_arg |-> req.requestId]

\* the request arrives: parameters are parsed up to the lock
Begin(q, req) ==
  /\ pc[q] = "idle"
  /\ IF req.dataset = "bad"
       THEN Finish(q, [status |-> 400]) /\ UNCHANGED args
     ELSE IF req.dataset = "missing"
       THEN Finish(q, [status |-> 404]) /\ UNCHANGED args
     ELSE IF req.requestId.kind = "bad"
       THEN Finish(q, [status |-> 400]) /\ args' = [args EXCEPT ![q] = ParseArgs(req)]
     ELSE /\ args' = [args EXCEPT ![q] = ParseArgs(req)]
          /\ pc' = [pc EXCEPT ![q] = "acquire"]
          /\ UNCHANGED response
  /\ UNCHANGED <<SOLUTIONS, REQUEST_TOKENS, REQUEST_LOCK, prev, request_id, scan,
                 superseded_at, codec>>

LockIgnored == TRUE

\* with REQUEST_LOCK: blocks while another thread holds the lock
LockFree == REQUEST_LOCK = 0

AcquireLock(q) ==
  /\ pc[q] = "acquire"
  /\ LockFree
  /\ REQUEST_LOCK' = q
  /\ pc' = [pc EXCEPT ![q] = "read"]
  /\ UNCHANGED <<SOLUTIONS, REQUEST_TOKENS, args, prev, request_id, scan, response,
                 superseded_at, codec>>

\* REQUEST_TOKENS.get(client_key, 0) inside the lock
ReadToken(q) ==
  /\ pc[q] = "read"
  /\ prev' = [prev EXCEPT ![q] = TokenGet(REQUEST_TOKENS, args[q].client_key)]
  /\ pc' = [pc EXCEPT ![q] = "write"]
  /\ UNCHANGED <<SOLUTIONS, REQUEST_TOKENS, REQUEST_LOCK, args, request_id, scan,
                 response, superseded_at, codec>>

\* the token of the request: the supplied one, or the stored one bumped
EffectiveTokenAhead(request_id_arg, p) ==
  IF request_id_arg.kind = "int" THEN request_id_arg.val ELSE p + 2

EffectiveToken(request_id_arg, p) ==
  IF request_id_arg.kind = "int" THEN request_id_arg.val ELSE p + 1

RefreshedTokensNoMax(tokens, client_key, request_id_arg, p) ==
  IF request_id_arg.kind = "int"
    THEN TokenSet(tokens, client_key, request_id_arg.val)
    ELSE TokenSet(tokens, client_key, p + 1)

\* the registry after the locked block
RefreshedTokens(tokens, client_key, request_id_arg, p) ==
  IF request_id_arg.kind = "int"
    THEN IF request_id_arg.val > p
           THEN TokenSet(tokens, client_key, request_id_arg.val)
           ELSE tokens
    ELSE TokenSet(tokens, client_key, p + 1)

\* threads that have their token and still have records to fetch
Scanning(t) ==
  /\ pc[t] \in {"collect", "scan"}
  /\ scan[t].pos < Len(SOLUTIONS)

WriteToken(q) ==
  /\ pc[q] = "write"
  /\ LET a == args[q]
         tokens == RefreshedTokens(REQUEST_TOKENS, a.client_key, a.request_id_arg, prev[q])
     IN /\ REQUEST_TOKENS' = tokens
        /\ request_id' = [request_id EXCEPT ![q] = EffectiveToken(a.request_id_arg, prev[q])]
        /\ superseded_at' =
             [t \in AllThreads |->
                IF /\ t # q
                   /\ Scanning(t)
                   /\ args[t].client_key = a.client_key
                   /\ superseded_at[t] = NotSuperseded
                   /\ tokens # REQUEST_TOKENS
                   /\ TokenGet(tokens, a.client_key) > request_id[t]
                  THEN scan[t].pos
                  ELSE superseded_at[t]]
  /\ REQUEST_LOCK' = 0
  /\ pc' = [pc EXCEPT ![q] = "collect"]
  /\ UNCHANGED <<SOLUTIONS, args, prev, scan, response, codec>>

\* entry of _collect_filtered_page: the filter masks are computed
CollectStart(q) ==
  /\ pc[q] = "collect"
  /\ IF NamesKnown(args[q])
       THEN /\ scan' = [scan EXCEPT ![q] = ScanInit(args[q])]
            /\ pc' = [pc EXCEPT ![q] = "scan"]
            /\ UNCHANGED response
       ELSE Finish(q, [status |-> 500]) /\ UNCHANGED scan
  /\ UNCHANGED <<SOLUTIONS, REQUEST_TOKENS, REQUEST_LOCK, args, prev, request_id,
                 superseded_at, codec>>

\* Iterations that cannot read REQUEST_TOKENS touch only locals of the thread;
\* they are taken in one step unless they are within FineWindow iterations of
\* a poll or of the end of the records.
StepLen(count, remaining) ==
  Max(1, Min(CANCELLATION_CHECK_INTERVAL - FineWindow - count, remaining - FineWindow))

RECURSIVE ScanRun(_, _, _, _, _, _, _)
ScanRun(st, n, solutions, current, token, start_index, limit) ==
  IF n = 0 \/ st.cancelled THEN st
  ELSE ScanRun(ScanIter(st, solutions[st.pos + 1], current, token, start_index, limit),
               n - 1, solutions, current, token, start_index, limit)

ScanStep(q) ==
  /\ pc[q] = "scan"
  /\ scan[q].pos < Len(SOLUTIONS)
  /\ LET a == args[q]
         n == StepLen(scan[q].iterations_since_check, Len(SOLUTIONS) - scan[q].pos)
         st == ScanRun(scan[q], n, SOLUTIONS, TokenGet(REQUEST_TOKENS, a.client_key),
                       request_id[q], a.start_index, a.limit)
     IN /\ scan' = [scan EXCEPT ![q] = st]
        /\ IF st.cancelled
             THEN Finish(q, ApiResponse(CancelledResult, a.limit, a.requested_page))
             ELSE UNCHANGED <<pc, response>>
  /\ UNCHANGED <<SOLUTIONS, REQUEST_TOKENS, REQUEST_LOCK, args, prev, request_id,
                 superseded_at, codec>>

\* the records are exhausted: the page is built and returned
Respond(q) ==
  /\ pc[q] = "scan"
  /\ scan[q].pos = Len(SOLUTIONS)
  /\ Finish(q, ApiResponse(CompletedResult(scan[q]), args[q].limit, args[q].requested_page))
  /\ UNCHANGED <<SOLUTIONS, REQUEST_TOKENS, REQUEST_LOCK, args, prev, request_id,
                 scan, superseded_at, codec>>


(***************************************************************************)
(* Applications of the codec functions                                     *)
(***************************************************************************)
TraitSet == Range(TRAIT_LIST)
CardSet == Range(CARD_LIST)

\* the weighted traits of an assignment w : TraitSet -> 0..MAX_WEIGHT, in
\* vocabulary order, traits of weight 0 left out
RECURSIVE WeightedFrom(_, _)
WeightedFrom(w, i) ==
  IF i > Len(TRAIT_LIST) THEN <<>>
  ELSE (IF w[TRAIT_LIST[i]] > 0 THEN << <<TRAIT_LIST[i], w[TRAIT_LIST[i]]>> >> ELSE <<>>)
         \o WeightedFrom(w, i + 1)

WeightAssignments == [TraitSet -> 0..MAX_WEIGHT]

\* lists of card names, any order, repetitions allowed
CardLists == UNION {[1..n -> CardSet] : n \in 0..NumCards}

WeightOf(weighted, trait) ==
  IF \E i \in 1..Len(weighted) : weighted[i][1] = trait
    THEN (weighted[CHOOSE i \in 1..Len(weighted) : weighted[i][1] = trait])[2]
    ELSE 0

ApplyCards(cards) ==
  /\ codec.op = "none"
  /\ codec' = [op |-> "cards", cards |-> cards, mask |-> cardsMask(cards),
               decoded |-> decodeCardsMask(cardsMask(cards))]
  /\ UNCHANGED handlerVars

ApplyTraits(w) ==
  /\ codec.op = "none"
  /\ LET weighted == WeightedFrom(w, 1)
     IN codec' = [op |-> "traits", weighted |-> weighted, mask |-> traitsMask(weighted),
                  decoded |-> decodeTraitsMask(traitsMask(weighted))]
  /\ UNCHANGED handlerVars

\* the same weighted traits listed against the vocabulary order
ApplyTraitsReversed(w) ==
  /\ codec.op = "none"
  /\ LET inOrder == WeightedFrom(w, 1)
         weighted == [i \in 1..Len(inOrder) |-> inOrder[Len(inOrder) + 1 - i]]
     IN codec' = [op |-> "traits", weighted |-> weighted, mask |-> traitsMask(weighted),
                  decoded |-> decodeTraitsMask(traitsMask(weighted))]
  /\ UNCHANGED handlerVars

ApplyMin2(w, names) ==
  /\ codec.op = "none"
  /\ LET weighted == WeightedFrom(w, 1)
         filterMask == traitMin2FilterMask(SetToList(names))
     IN codec' = [op |-> "min2", weighted |-> weighted, names |-> names,
                  filterMask |-> filterMask,
                  passes |-> filterTraitsMin2(filterMask, traitsMask(weighted))]
  /\ UNCHANGED handlerVars

ApplyMin4(w, names) ==
  /\ codec.op = "none"
  /\ LET weighted == WeightedFrom(w, 1)
         filterMask == traitMin4FilterMask(SetToList(names))
     IN codec' = [op |-> "min4", weighted |-> weighted, names |-> names,
                  filterMask |-> filterMask,
                  passes |-> filterTraitsMin4(filterMask, traitsMask(weighted))]
  /\ UNCHANGED handlerVars

ApplyMax1(w, names) ==
  /\ codec.op = "none"
  /\ LET weighted == WeightedFrom(w, 1)
         filterMask == traitsMax1FilterMask(SetToList(names))
     IN codec' = [op |-> "max1", weighted |-> weighted, names |-> names,
                  filterMask |-> filterMask,
                  passes |-> filterTraitsMax1(filterMask, traitsMask(weighted))]
  /\ UNCHANGED handlerVars

(***************************************************************************)
(* Datasets and requests                                                   *)
(***************************************************************************)
Rec(cards, weighted) == [cards |-> cardsMask(cards), traits |-> traitsMask(weighted)]

RecordList ==
  << Rec(<<"a", "c">>, << <<"x", 2>> >>),
     Rec(<<"b">>, << <<"x", 4>>, <<"y", 1>> >>),
     Rec(<<"a", "b">>, << <<"y", 3>> >>) >>

\* a file of n records that repeats RecordList
CyclicFile(n) == [i \in 1..n |-> RecordList[((i - 1) % Len(RecordList)) + 1]]

\* every file of at most MaxLen records over the first two records
PageDatasets == UNION {[1..n -> {RecordList[1], RecordList[2]}] : n \in 0..MaxLen}

\* a file too short for any poll
ConcDatasets == {CyclicFile(1)}

\* one file just short of the first poll and one that reaches it
CancelDatasets == {CyclicFile(CANCELLATION_CHECK_INTERVAL - 1), CyclicFile(LongLen)}

ClientKeys == {"k1", "k2"}

Filters(required, forbidden, min4, min2, max1) ==
  [required_cards |-> required, forbidden_cards |-> forbidden, traits_min4 |-> min4,
   traits_min2 |-> min2, traits_max1 |-> max1]

NoFilter == Filters({}, {}, {}, {}, {})

Req(dataset, f, limit, page, clientId, requestId) ==
  [dataset |-> dataset,
   required_cards |-> f.required_cards, forbidden_cards |-> f.forbidden_cards,
   traits_min4 |-> f.traits_min4, traits_min2 |-> f.traits_min2,
   traits_max1 |-> f.traits_max1,
   limit |-> limit, page |-> page, clientId |-> clientId, requestId |-> requestId]

\* requests of concurrent clients: one or two keys, own or server tokens
ConcRequests ==
  {Req("file", NoFilter, IntArg(2), IntArg(1), k, r) :
     k \in ClientKeys, r \in {Absent, IntArg(1), IntArg(2)}}
  \cup {Req("missing", NoFilter, Absent, Absent, "k1", Absent),
        Req("bad", NoFilter, Absent, Absent, "k1", Absent),
        Req("file", NoFilter, Absent, Absent, "k1", Bad)}

PageFilters ==
  {NoFilter,
   Filters({"A"}, {"b"}, {}, {}, {"y"})}

\* requests of one client that pages through one query
PageRequests ==
  {Req("file", f, IntArg(l), IntArg(p), "k1", Absent) :
     f \in PageFilters, l \in 1..2, p \in 1..MaxPage}

\* the client sends the next page request once the previous one is answered
PageTurn(q) ==
  /\ pc[q] = "idle"
  /\ \A t \in PageThreads : t < q => pc[t] = "done"
  /\ \A t \in PageThreads : t > q => pc[t] = "idle"

\* it keeps the filters and the page size, and asks for each page once
NextPageOf(q, req) ==
  \A t \in PageThreads :
    t < q =>
      /\ [args[t].raw EXCEPT !.page = Absent] = [req EXCEPT !.page = Absent]
      /\ args[t].raw.page # req.page

\* one query at a time
OneQuery == {1}

\* raw values of the limit, page and requestId parameters: absent, not an
\* integer, and integers inside and outside the accepted range
RawLimits == {Absent, Bad, IntArg(0), IntArg(2), IntArg(LIMIT_MAX + 1)}

RawPages == {Absent, Bad, IntArg(0), IntArg(2)}

RawTokens == {Absent, Bad, IntArg(-1), IntArg(0), IntArg(1)}

\* a name that is in neither CARD_LIST nor TRAIT_LIST
UnknownName == "zz"

NameFilters ==
  {Filters({UnknownName}, {}, {}, {}, {}),
   Filters({}, {"a", UnknownName}, {}, {}, {}),
   Filters({}, {}, {UnknownName}, {}, {}),
   Filters({}, {}, {}, {"x", UnknownName}, {}),
   Filters({}, {}, {}, {}, {UnknownName})}

\* attributes named in both the min-2 and the min-4 list, in either case
OverlapFilters ==
  {Filters({}, {}, {"x"}, {"X", "y"}, {}),
   Filters({}, {}, {"X", "y"}, {"x"}, {}),
   Filters({}, {}, {"y"}, {"y"}, {"x"})}

\* requests with every kind of raw parameter
ArgRequests ==
  {Req("file", NoFilter, l, p, "k1", r) :
     l \in RawLimits, p \in RawPages, r \in RawTokens}
  \cup {Req("file", f, IntArg(2), IntArg(1), "k1", r) :
          f \in NameFilters \cup PageFilters, r \in {Absent, IntArg(-1), IntArg(1)}}
  \cup {Req("file", f, IntArg(2), IntArg(1), "k1", Absent) : f \in OverlapFilters}

\* files with no poll, with one poll and with two polls
ArgDatasets ==
  {CyclicFile(MaxLen), CyclicFile(LongLen),
   CyclicFile(CANCELLATION_CHECK_INTERVAL + LongLen)}

\* requests of one client with and without a predicate, own or server tokens
ScanRequests ==
  {Req("file", f, IntArg(2), IntArg(1), "k1", r) :
     f \in PageFilters, r \in {Absent, IntArg(2)}}


(***************************************************************************)
(* Specifications                                                          *)
(***************************************************************************)
InitRest ==
  /\ REQUEST_TOKENS = [k \in {} |-> 0]
  /\ REQUEST_LOCK = 0
  /\ pc = [t \in AllThreads |-> "idle"]
  /\ args = [t \in AllThreads |-> NoArgs]
  /\ prev = [t \in AllThreads |-> 0]
  /\ request_id = [t \in AllThreads |-> 0]
  /\ scan = [t \in AllThreads |-> NoScan]
  /\ response = [t \in AllThreads |-> NoResponse]
  /\ superseded_at = [t \in AllThreads |-> NotSuperseded]
  /\ codec = [op |-> "none"]

Init == SOLUTIONS \in ConcDatasets /\ InitRest

HandlerStep(q) ==
  \/ AcquireLock(q)
  \/ ReadToken(q)
  \/ WriteToken(q)
  \/ CollectStart(q)
  \/ ScanStep(q)
  \/ Respond(q)

Next ==
  \E q \in Threads :
    \/ \E req \in ConcRequests : Begin(q, req)
    \/ HandlerStep(q)

Spec == Init /\ [][Next]_vars

InitCancel == SOLUTIONS \in CancelDatasets /\ InitRest

NextCancel ==
  \E q \in TwoQueries :
    \/ \E req \in ConcRequests : Begin(q, req)
    \/ HandlerStep(q)

SpecCancel == InitCancel /\ [][NextCancel]_vars

InitPage == SOLUTIONS \in PageDatasets /\ InitRest

NextPage ==
  \E q \in PageThreads :
    \/ PageTurn(q) /\ \E req \in PageRequests : NextPageOf(q, req) /\ Begin(q, req)
    \/ HandlerStep(q)

SpecPage == InitPage /\ [][NextPage]_vars

InitArgs == SOLUTIONS \in ArgDatasets /\ InitRest

NextArgs ==
  \E q \in OneQuery :
    \/ \E req \in ArgRequests : Begin(q, req)
    \/ HandlerStep(q)

SpecArgs == InitArgs /\ [][NextArgs]_vars

InitScan == SOLUTIONS \in CancelDatasets /\ InitRest

NextScan ==
  \E q \in TwoQueries :
    \/ \E req \in ScanRequests : Begin(q, req)
    \/ HandlerStep(q)

SpecScan == InitScan /\ [][NextScan]_vars

InitCodec == SOLUTIONS = <<>> /\ InitRest

NextCodec ==
  \/ \E cards \in CardLists : ApplyCards(cards)
  \/ \E w \in WeightAssignments : ApplyTraits(w)
  \/ \E w \in WeightAssignments : ApplyTraitsReversed(w)
  \/ \E w \in WeightAssignments, names \in SUBSET TraitSet : ApplyMin2(w, names)
  \/ \E w \in WeightAssignments, names \in SUBSET TraitSet : ApplyMin4(w, names)
  \/ \E w \in WeightAssignments, names \in SUBSET TraitSet : ApplyMax1(w, names)

SpecCodec == InitCodec /\ [][NextCodec]_vars


(***************************************************************************)
(* Properties of the codec                                                 *)
(***************************************************************************)
\* C4: for a predicate naming one attribute that the record carries at weight
\* w in 1..4, the min-2 test passes iff w >= 2 and the min-4 test passes iff
\* w >= 4.
C4_ThresholdTestIsWeightComparison ==
  \A t \in TraitSet :
    (codec.op \in {"min2", "min4"} /\ codec.names = {t}
       /\ WeightOf(codec.weighted, t) >= 1)
    => (codec.passes <=>
          WeightOf(codec.weighted, t) >= (IF codec.op = "min2" THEN 2 ELSE 4))

\* C5: the max-1 test rejects a record iff an attribute named in the
\* predicate has weight >= 2 in the record.
C5_Max1RejectsFromWeightTwo ==
  (codec.op = "max1" /\ codec.names # {})
  => (~codec.passes <=> \E t \in codec.names : WeightOf(codec.weighted, t) >= 2)

\* C6: decodeCardsMask(cardsMask(N)) lists exactly the names of N, in
\* vocabulary order.
C6_CardsRoundTrip ==
  codec.op = "cards"
  => /\ Range(codec.decoded) = Range(codec.cards)
     /\ codec.decoded = SelectSeq(CARD_LIST, LAMBDA c : c \in Range(codec.cards))

C6_Witness ==
  /\ codec.op = "cards"
  /\ codec.cards = <<"c", "a">>
  /\ codec.decoded = <<"a", "c">>


(***************************************************************************)
(* Properties of the handler                                               *)
(***************************************************************************)
Answered(q) == pc[q] = "done" /\ response[q].status = 200
Cancelled(q) == Answered(q) /\ "cancelled" \in DOMAIN response[q]
Completed(q) == Answered(q) /\ "results" \in DOMAIN response[q]
Running(q) == pc[q] \in {"collect", "scan"}
Superseded(q) == superseded_at[q] # NotSuperseded
NoMatchData(q) ==
  /\ "results" \notin DOMAIN response[q]
  /\ "totalMatches" \notin DOMAIN response[q]

\* C1: a query that was superseded by a greater token while it still had
\* records to fetch ends cancelled within CANCELLATION_CHECK_INTERVAL further
\* records and returns no match data.
C1_SupersededEndsCancelled ==
  \A q \in AllThreads :
    (Answered(q) /\ Superseded(q))
    => /\ Cancelled(q)
       /\ NoMatchData(q)
       /\ scan[q].pos - superseded_at[q] <= CANCELLATION_CHECK_INTERVAL

\* C1 (amended): a superseded query fetches at most
\* CANCELLATION_CHECK_INTERVAL further records; it then ends cancelled without
\* match data, or it completes, which it can only do when fewer than
\* CANCELLATION_CHECK_INTERVAL records were left when it was superseded.
C1_SupersededStopsWithinInterval ==
  \A q \in AllThreads :
    Superseded(q)
    => /\ scan[q].pos - superseded_at[q] <= CANCELLATION_CHECK_INTERVAL
       /\ Answered(q)
          => \/ Cancelled(q) /\ NoMatchData(q)
             \/ /\ Completed(q)
                /\ Len(SOLUTIONS) - superseded_at[q] < CANCELLATION_CHECK_INTERVAL

C1_Witness ==
  \E q \in AllThreads :
    /\ Cancelled(q)
    /\ Superseded(q)
    /\ scan[q].pos - superseded_at[q] = CANCELLATION_CHECK_INTERVAL

\* C7: a cancelled outcome carries neither result items nor a match count.
C7_CancelledCarriesNoData ==
  \A q \in AllThreads :
    (pc[q] = "done" /\ "cancelled" \in DOMAIN response[q])
    => /\ response[q].cancelled
       /\ NoMatchData(q)
       /\ DOMAIN response[q] = {"status", "cancelled"}

C7_Witness ==
  \E q \in AllThreads :
    /\ Cancelled(q)
    /\ scan[q].total_matches > 0
    /\ scan[q].tail_entries_masked # <<>>

\* C8: a refresh for a key whose stored value is c leaves max(c, s) stored and
\* s as the token when s is supplied, and c + 1 stored and c + 1 as the token
\* when no token is supplied; c is the stored value when the write happens, so
\* no refresh of another thread is lost.
C8_RefreshContract ==
  [][\A q \in AllThreads :
       (pc[q] = "write" /\ pc'[q] = "collect")
       => LET k == args[q].client_key
              c == TokenGet(REQUEST_TOKENS, k)
              s == args[q].request_id_arg
          IN IF s.kind = "int"
               THEN /\ TokenGet(REQUEST_TOKENS', k) = Max(c, s.val)
                    /\ request_id'[q] = s.val
               ELSE /\ TokenGet(REQUEST_TOKENS', k) = c + 1
                    /\ request_id'[q] = c + 1]_vars

C8_Witness ==
  \E q \in AllThreads, t \in AllThreads :
    /\ q # t
    /\ pc[q] = "collect" /\ pc[t] = "collect"
    /\ args[q].client_key = args[t].client_key
    /\ args[q].request_id_arg = IntArg(1) /\ request_id[q] = 1
    /\ args[t].request_id_arg = Absent /\ request_id[t] = 2
    /\ TokenGet(REQUEST_TOKENS, args[q].client_key) = 2

\* C9: for each client key at most one running query is current.
C9_AtMostOneCurrent ==
  \A k \in ClientKeys :
    Cardinality({q \in AllThreads :
                   /\ Running(q)
                   /\ args[q].client_key = k
                   /\ request_id[q] = TokenGet(REQUEST_TOKENS, k)}) <= 1

\* C9 (amended): no running query holds a token above the stored value of its
\* key, and a refresh that raises the stored value of a key makes every
\* running query of that key that started before it non-current.
C9_RaisingRefreshSupersedes ==
  [][\A q \in AllThreads :
       /\ Running(q)' =>
            request_id'[q] <= TokenGet(REQUEST_TOKENS', args'[q].client_key)
       /\ (/\ Running(q)
           /\ TokenGet(REQUEST_TOKENS', args[q].client_key)
                > TokenGet(REQUEST_TOKENS, args[q].client_key))
          => request_id[q] # TokenGet(REQUEST_TOKENS', args[q].client_key)]_vars

C9_Witness ==
  \E q \in AllThreads, t \in AllThreads :
    /\ Running(q) /\ Running(t)
    /\ args[q].client_key = args[t].client_key
    /\ request_id[q] < request_id[t]
    /\ request_id[t] = TokenGet(REQUEST_TOKENS, args[t].client_key)

(***************************************************************************)
(* Properties of the pages                                                 *)
(***************************************************************************)
\* the record passes the five tests of the request
Matching(a, solution) ==
  LET st == ScanInit(a)
  IN solution_matches_filters(solution, st.requiredCardsMask, st.forbiddenCardsMask,
                               st.traitsMax1Mask, st.traitsMin2Mask, st.traitsMin4Mask)

MatchPositions(a) == {i \in 1..Len(SOLUTIONS) : Matching(a, SOLUTIONS[i])}

\* the matching records in stored order, each with its 1-based position
\* among the matches
RECURSIVE MatchItemsFrom(_, _, _)
MatchItemsFrom(a, i, seen) ==
  IF i > Len(SOLUTIONS) THEN <<>>
  ELSE IF Matching(a, SOLUTIONS[i])
    THEN << [displayId |-> seen + 1,
             cards |-> decodeCardsMask(SOLUTIONS[i].cards),
             traits |-> [j \in 1..Len(decodeTraitsMask(SOLUTIONS[i].traits)) |->
                           [name |-> decodeTraitsMask(SOLUTIONS[i].traits)[j][1],
                            count |-> decodeTraitsMask(SOLUTIONS[i].traits)[j][2]]]] >>
         \o MatchItemsFrom(a, i + 1, seen + 1)
    ELSE MatchItemsFrom(a, i + 1, seen)

\* n is the least number of pages of size l that hold m matches
IsPageCount(n, m, l) == n >= 0 /\ n * l >= m /\ (n > 0 => (n - 1) * l < m)

SameQuery(q, t) ==
  [args[q].raw EXCEPT !.page = Absent] = [args[t].raw EXCEPT !.page = Absent]

\* C10: a completed query reports the number of matching records, the least
\* page count that holds them (0 without matches) and page = min(P, totalPages).
C10_PageFieldIsMin ==
  \A q \in AllThreads :
    Completed(q)
    => /\ response[q].totalMatches = Cardinality(MatchPositions(args[q]))
       /\ IsPageCount(response[q].totalPages, response[q].totalMatches, args[q].limit)
       /\ response[q].page = Min(args[q].requested_page, response[q].totalPages)

\* C10 (amended): as C10, but without matches the reported page is 1.
C10_PageFieldIsMinOrOne ==
  \A q \in AllThreads :
    Completed(q)
    => /\ response[q].totalMatches = Cardinality(MatchPositions(args[q]))
       /\ IsPageCount(response[q].totalPages, response[q].totalMatches, args[q].limit)
       /\ response[q].page =
            IF response[q].totalMatches = 0 THEN 1
            ELSE Min(args[q].requested_page, response[q].totalPages)

C10_Witness ==
  \E q \in AllThreads, t \in AllThreads :
    /\ Completed(q) /\ Completed(t)
    /\ response[q].totalMatches = 0 /\ args[q].requested_page = 2
       /\ response[q].page = 1 /\ Len(SOLUTIONS) > 0
    /\ response[t].totalMatches = 0 /\ args[t].requested_page = 1

\* C2: with matches, a completed query for a page beyond totalPages returns
\* the items of the completed query for page totalPages and reports
\* page = totalPages.
C2_BeyondLastPageIsLastPage ==
  \A q \in AllThreads, t \in AllThreads :
    (/\ Completed(q) /\ Completed(t) /\ SameQuery(q, t)
     /\ response[q].totalMatches > 0
     /\ args[q].requested_page > response[q].totalPages
     /\ args[t].requested_page = response[q].totalPages)
    => /\ response[q].results = response[t].results
       /\ response[q].page = response[q].totalPages

C2_Witness ==
  \E q \in AllThreads, t \in AllThreads :
    /\ Completed(q) /\ Completed(t) /\ SameQuery(q, t)
    /\ response[q].totalPages = 2
    /\ response[q].totalMatches = 3
    /\ args[q].limit = 2
    /\ args[q].requested_page = 4
    /\ args[t].requested_page = 2
    /\ Len(response[q].results) = 1

\* the pages 1..n have all been answered
PagesAnswered(n) ==
  \A p \in 1..n : \E q \in AllThreads : Completed(q) /\ args[q].requested_page = p

PageItems(p) ==
  response[CHOOSE q \in AllThreads : Completed(q) /\ args[q].requested_page = p].results

RECURSIVE ConcatPages(_, _)
ConcatPages(p, n) == IF p > n THEN <<>> ELSE PageItems(p) \o ConcatPages(p + 1, n)

\* C3: the items of the completed queries for pages 1..totalPages, put one
\* after the other, are the matching records in stored order with the display
\* positions 1..totalMatches.
C3_PagesConcatenateToMatches ==
  \A q \in AllThreads :
    (Completed(q) /\ PagesAnswered(response[q].totalPages))
    => /\ ConcatPages(1, response[q].totalPages) = MatchItemsFrom(args[q], 1, 0)
       /\ \A i \in 1..response[q].totalMatches :
            ConcatPages(1, response[q].totalPages)[i].displayId = i

C3_Witness ==
  \E q \in AllThreads :
    /\ Completed(q)
    /\ response[q].totalPages = 2
    /\ PagesAnswered(2)
    /\ args[q].limit = 1
    /\ response[q].totalMatches < Len(SOLUTIONS)

(***************************************************************************)
(* Properties of the query parameters                                      *)
(***************************************************************************)
\* the integer is outside the range the handler accepts
LimitOutOfBounds(raw) == raw.kind = "int" /\ (raw.val < 1 \/ raw.val > LIMIT_MAX)

PageOutOfBounds(raw) == raw.kind = "int" /\ raw.val < 1

Malformed(req) ==
  \/ req.limit.kind = "bad" \/ LimitOutOfBounds(req.limit)
  \/ req.page.kind = "bad" \/ PageOutOfBounds(req.page)
  \/ req.requestId.kind = "bad"

\* C11 (as stated): a query whose page size, page number or request token is
\* not an integer or is out of bounds ends with the 400 error before any
\* record is scanned and returns no page.
C11_MalformedInputIsRejected ==
  \A q \in AllThreads :
    (args[q].found /\ Malformed(args[q].raw))
    => (pc[q] = "done" /\ response[q] = [status |-> 400] /\ scan[q] = NoScan)

\* C11 (amended): only a request token that is not an integer is rejected with
\* 400, before the registry is refreshed and before any record is scanned; a
\* page size that is not an integer becomes DISPLAY_LIMIT and one out of
\* bounds is clamped into 1..LIMIT_MAX, a page number that is not an integer
\* or is below 1 becomes 1, and the query is then served with these values.
C11_OnlyBadTokenIsRejected ==
  \A q \in AllThreads :
    args[q].found =>
      LET raw == args[q].raw
          limit == args[q].limit
          page == args[q].requested_page
      IN /\ raw.requestId.kind = "bad"
              => /\ pc[q] = "done" /\ response[q] = [status |-> 400]
                 /\ scan[q] = NoScan /\ request_id[q] = 0 /\ prev[q] = 0
         /\ raw.requestId.kind # "bad"
              => /\ response[q].status # 400
                 /\ limit \in 1..LIMIT_MAX
                 /\ raw.limit.kind # "int" => limit = DISPLAY_LIMIT
                 /\ (raw.limit.kind = "int" /\ raw.limit.val < 1) => limit = 1
                 /\ (raw.limit.kind = "int" /\ raw.limit.val > LIMIT_MAX)
                      => limit = LIMIT_MAX
                 /\ (raw.limit.kind = "int" /\ ~LimitOutOfBounds(raw.limit))
                      => limit = raw.limit.val
                 /\ page = (IF raw.page.kind = "int" /\ raw.page.val >= 1
                              THEN raw.page.val ELSE 1)
                 /\ Completed(q)
                      => /\ response[q].limit = limit
                         /\ Len(response[q].results) <= limit

\* a page size and a page number that are not integers, served as the first
\* page of DISPLAY_LIMIT records
C11_Witness ==
  /\ Len(SOLUTIONS) >= CANCELLATION_CHECK_INTERVAL
  /\ \E q \in OneQuery :
       /\ Completed(q)
       /\ args[q].raw.limit = Bad /\ args[q].raw.page = Bad
       /\ response[q].limit = DISPLAY_LIMIT /\ response[q].page = 1
       /\ Len(response[q].results) = DISPLAY_LIMIT

\* the query got past the parameter checks with a name that is not in the
\* vocabulary
UnknownNameQuery(q) ==
  args[q].found /\ args[q].raw.requestId.kind # "bad" /\ ~NamesKnown(args[q])

\* C12 (as stated): a query whose predicate references an unknown name ends
\* in an error without examining any record and without a page result, and
\* it leaves the registry unchanged: a key on which only such queries have
\* arrived has no entry.
C12_UnknownNameLeavesRegistry ==
  /\ \A q \in AllThreads :
       UnknownNameQuery(q)
       => /\ scan[q] = NoScan
          /\ pc[q] = "done" => (response[q].status >= 400
                                  /\ "results" \notin DOMAIN response[q])
  /\ \A k \in ClientKeys :
       (\A q \in AllThreads :
          (args[q].found /\ args[q].client_key = k) => UnknownNameQuery(q))
       => k \notin DOMAIN REQUEST_TOKENS

(***************************************************************************)
(* Properties of the cancellation registry                                 *)
(***************************************************************************)
\* the query has passed its locked refresh of the registry
Refreshed(q) ==
  \/ pc[q] \in {"collect", "scan"}
  \/ pc[q] = "done" /\ response[q].status \in {200, 500}

\* C13 (as stated): a query is cancelled only because it was superseded: if
\* a query with token T on key k reports cancelled, another refresh on k has
\* recorded a token greater than T; in particular a query on a key with no
\* other refresh never reports cancelled, whatever token it supplied.
C13_CancelledOnlyIfSuperseded ==
  \A q \in AllThreads :
    Cancelled(q)
    => \E t \in AllThreads \ {q} :
         /\ Refreshed(t)
         /\ args[t].client_key = args[q].client_key
         /\ request_id[t] > request_id[q]
         /\ TokenGet(REQUEST_TOKENS, args[q].client_key) >= request_id[t]

(***************************************************************************)
(* Properties of the scan                                                  *)
(***************************************************************************)
NoNames(a) ==
  /\ a.required_cards = {} /\ a.forbidden_cards = {}
  /\ a.traits_max1 = {} /\ a.traits_min2 = {} /\ a.traits_min4 = {}

\* C14: a query is cancelled only in a step whose poll reads a stored value
\* different from its token, so a query whose token equals the stored value
\* at every poll is never cancelled; its scan terminates: while it scans it
\* always has a step to take, no other thread touches its scan, and each of
\* its steps fetches at least one more record of the file or ends the
\* request; a completed query reports as totalMatches the number of records
\* that pass all five tests; an empty name set compiles to mask 0, and with
\* all five sets empty totalMatches is the number of records.
C14_CurrentQueryCompletes ==
  /\ [][\A q \in TwoQueries :
          /\ (pc[q] = "scan" /\ pc'[q] = "done" /\ "cancelled" \in DOMAIN response'[q])
               => /\ scan'[q].polled
                  /\ TokenGet(REQUEST_TOKENS, args[q].client_key) # request_id[q]
          /\ (pc[q] = "scan" /\ pc'[q] = "done" /\ "cancelled" \notin DOMAIN response'[q])
               => (scan[q].pos = Len(SOLUTIONS) /\ Completed(q)')
          /\ (pc[q] = "scan" /\ pc'[q] = "scan")
               => (scan'[q] = scan[q] \/ scan'[q].pos > scan[q].pos)]_vars
  /\ [](\A q \in TwoQueries :
          /\ pc[q] = "scan"
               => /\ scan[q].pos <= Len(SOLUTIONS) /\ ~scan[q].cancelled
                  /\ args[q].required_cards = {} => scan[q].requiredCardsMask = 0
                  /\ args[q].forbidden_cards = {} => scan[q].forbiddenCardsMask = 0
                  /\ args[q].traits_max1 = {} => scan[q].traitsMax1Mask = 0
                  /\ args[q].traits_min2 = {} => scan[q].traitsMin2Mask = 0
                  /\ args[q].traits_min4 = {} => scan[q].traitsMin4Mask = 0
          /\ Completed(q)
               => /\ response[q].totalMatches = Cardinality(MatchPositions(args[q]))
                  /\ NoNames(args[q]) => response[q].totalMatches = Len(SOLUTIONS))

\* a query with a predicate completes a scan that polled, while the query it
\* superseded was cancelled
C14_Witness ==
  \E q, t \in TwoQueries :
    /\ Completed(q) /\ scan[q].pos >= CANCELLATION_CHECK_INTERVAL
    /\ response[q].totalMatches > 0
    /\ response[q].totalMatches < Len(SOLUTIONS)
    /\ request_id[q] = TokenGet(REQUEST_TOKENS, args[q].client_key)
    /\ Cancelled(t)

\* records among the first n that pass all five tests of the query
MatchesAmong(a, n) == Cardinality({i \in 1..n : Matching(a, SOLUTIONS[i])})

\* C15: the registry is polled exactly at the records whose number is a
\* positive multiple of CANCELLATION_CHECK_INTERVAL, counted over all
\* examined records; the poll comes before that record is tested (a scan
\* cancelled at record n has tested n - 1 records, one that goes on has
\* tested n); a scan over fewer records than the interval never polls and
\* is never cancelled.
C15_PollsAtMultiplesOfInterval ==
  \A q \in AllThreads :
    (pc[q] = "scan" \/ Answered(q)) =>
      LET st == scan[q]
          K == CANCELLATION_CHECK_INTERVAL
      IN /\ st.polled <=> (st.pos > 0 /\ st.pos % K = 0)
         /\ st.iterations_since_check = st.pos % K
         /\ st.cancelled <=> Cancelled(q)
         /\ st.cancelled
              => /\ st.polled
                 /\ st.total_matches = MatchesAmong(args[q], st.pos - 1)
         /\ ~st.cancelled => st.total_matches = MatchesAmong(args[q], st.pos)
         /\ Len(SOLUTIONS) < K => (~st.polled /\ ~st.cancelled)

\* the scan has just passed its second poll, with matching and non-matching
\* records behind it
C15_Witness ==
  \E q \in OneQuery :
    /\ pc[q] = "scan" /\ scan[q].polled
    /\ scan[q].pos = 2 * CANCELLATION_CHECK_INTERVAL
    /\ scan[q].total_matches > 0 /\ scan[q].total_matches < scan[q].pos

\* position in the file of the match with 0-based match index k
NthMatch(a, k) ==
  CHOOSE i \in 1..Len(SOLUTIONS) :
    Matching(a, SOLUTIONS[i]) /\ MatchesAmong(a, i - 1) = k

\* the matches with index lo .. hi - 1, tagged with their index
TaggedMatches(a, lo, hi) ==
  [j \in 1..(hi - lo) |-> <<lo + j - 1, SOLUTIONS[NthMatch(a, lo + j - 1)]>>]

\* C16: after every processed record, with m matches so far, page size L and
\* slice start S: the trailing buffer holds the most recent min(L, m)
\* matches in scan order tagged max(0, m - L) .. m - 1, the requested slice
\* holds the matches with index in [S, S + L) below m, and neither holds
\* more than L entries.
C16_ScanInvariant ==
  \A q \in PageThreads :
    pc[q] = "scan" =>
      LET a == args[q]
          st == scan[q]
          L == a.limit
          S == a.start_index
          m == MatchesAmong(a, st.pos)
      IN /\ st.total_matches = m
         /\ st.tail_entries_masked = TaggedMatches(a, Max(0, m - L), m)
         /\ Len(st.tail_entries_masked) = Min(L, m)
         /\ st.requested_entries_masked = TaggedMatches(a, Min(S, m), Min(S + L, m))
         /\ Len(st.tail_entries_masked) <= L
         /\ Len(st.requested_entries_masked) <= L

\* a scan for the second page that has found more matches than the page
\* holds: the buffer has dropped its oldest match and the slice is full
C16_Witness ==
  \E q \in PageThreads :
    /\ pc[q] = "scan"
    /\ args[q].start_index > 0
    /\ scan[q].total_matches > args[q].start_index + args[q].limit
    /\ Len(scan[q].requested_entries_masked) = args[q].limit
    /\ scan[q].tail_entries_masked[1][1] > args[q].start_index

\* the running query holds the stored value of its key
Current(q) ==
  Running(q) /\ request_id[q] = TokenGet(REQUEST_TOKENS, args[q].client_key)

\* C17: in every step the stored token of every key stays or grows and no
\* entry is removed; a refresh that supplies a token not above the stored
\* value leaves the whole registry unchanged, so every running query that
\* was current stays current.
C17_RegistryIsMonotonic ==
  [][/\ \A k \in DOMAIN REQUEST_TOKENS :
          k \in DOMAIN REQUEST_TOKENS' /\ REQUEST_TOKENS'[k] >= REQUEST_TOKENS[k]
     /\ \A q \in AllThreads :
          (/\ pc[q] = "write" /\ pc'[q] = "collect"
           /\ args[q].request_id_arg.kind = "int"
           /\ args[q].request_id_arg.val
                <= TokenGet(REQUEST_TOKENS, args[q].client_key))
          => /\ REQUEST_TOKENS' = REQUEST_TOKENS
             /\ \A t \in AllThreads \ {q} : Current(t) => Current(t)']_vars

\* an older request with token 1 has refreshed after the query that holds
\* token 2, which is still running and current
C17_Witness ==
  \E q \in AllThreads, t \in AllThreads :
    /\ q # t
    /\ pc[q] = "collect" /\ args[q].request_id_arg = IntArg(1) /\ prev[q] = 2
    /\ args[t].request_id_arg = IntArg(2) /\ Current(t)
    /\ args[q].client_key = args[t].client_key
    /\ REQUEST_TOKENS[args[t].client_key] = 2

(***************************************************************************)
(* Properties of the attribute fields                                      *)
(***************************************************************************)
\* the bits of the 4-bit fields of the attributes in names
RECURSIVE FieldsOf(_, _)
FieldsOf(names, i) ==
  IF i > Len(TRAIT_LIST) THEN 0
  ELSE BitOr(IF TRAIT_LIST[i] \in names THEN Shl(15, (i - 1) * MAX_WEIGHT) ELSE 0,
             FieldsOf(names, i + 1))

\* the threshold test that belongs to the compiled mask
ThresholdTest(op, filterMask, traits) ==
  CASE op = "min2" -> filterTraitsMin2(filterMask, traits)
    [] op = "min4" -> filterTraitsMin4(filterMask, traits)
    [] op = "max1" -> filterTraitsMax1(filterMask, traits)

\* C18 (as stated): the mask compiled for a set N of attributes by the
\* min-2, min-4 or max-1 predicate has bits only inside the 4-bit fields of
\* the attributes in N, and the test gives the same result for every record
\* that has the same weights on N.
C18_FieldIsolation ==
  codec.op \in {"min2", "min4", "max1"} =>
    /\ BitAnd(codec.filterMask, FieldsOf(codec.names, 1)) = codec.filterMask
    /\ \A w \in WeightAssignments :
         (\A t \in codec.names : w[t] = WeightOf(codec.weighted, t))
         => ThresholdTest(codec.op, codec.filterMask, traitsMask(WeightedFrom(w, 1)))
              = codec.passes

\* C19: traitsMask of weighted traits with weights 1..MAX_WEIGHT on
\* distinct attributes sets exactly the low w bits of the field of each
\* attribute of weight w and no other bit, and decodeTraitsMask of that mask
\* returns exactly the pairs in vocabulary order, whatever the order they
\* were given in; over the vocabularies [a, b, c] and [x, y] the cards
\* {a, c} encode to 0b101 and the traits x:2 to 0b0011.
C19_TraitsRoundTrip ==
  /\ codec.op = "traits" =>
       /\ \A i \in 1..Len(TRAIT_LIST) :
            Shr(codec.mask, (i - 1) * 4) % 16
              = 2 ^ WeightOf(codec.weighted, TRAIT_LIST[i]) - 1
       /\ codec.mask < 16 ^ Len(TRAIT_LIST)
       /\ codec.decoded
            = WeightedFrom([t \in TraitSet |-> WeightOf(codec.weighted, t)], 1)
       /\ Range(codec.decoded) = Range(codec.weighted)
       /\ codec.weighted = << <<"x", 2>> >> => codec.mask = 3
  /\ (codec.op = "cards" /\ Range(codec.cards) = {"a", "c"}) => codec.mask = 5

\* two attributes given against the vocabulary order, one of them at the
\* full weight
C19_Witness ==
  /\ codec.op = "traits"
  /\ codec.weighted = << <<"y", MAX_WEIGHT>>, <<"x", 2>> >>
  /\ codec.mask = 243
  /\ codec.decoded = << <<"x", 2>>, <<"y", MAX_WEIGHT>> >>

C21_Min2ExcludesMin4 ==
  \A q \in AllThreads :
    args[q].found =>
      LET a == args[q]
          min2 == LowerAll(a.raw.traits_min2)
          min4 == LowerAll(a.raw.traits_min4)
      IN /\ a.traits_min4 = min4
         /\ a.traits_min2 = {t \in min2 : t \notin min4}
         /\ a.traits_min2 \cap a.traits_min4 = {}
         /\ pc[q] = "scan"
              => /\ BitAnd(scan[q].traitsMin2Mask, FieldsOf(a.traits_min4, 1)) = 0
                 /\ \A t \in min2 \ min4 :
                      BitAnd(scan[q].traitsMin2Mask, FieldsOf({t}, 1)) # 0

\* a query that names x in both lists (once in upper case) and y in the
\* min-2 list only scans with a min-2 mask for y alone
C21_Witness ==
  \E q \in OneQuery :
    /\ pc[q] = "scan" /\ scan[q].pos > 0
    /\ args[q].raw.traits_min2 = {"X", "y"} /\ args[q].raw.traits_min4 = {"x"}
    /\ args[q].traits_min2 = {"y"}
    /\ scan[q].traitsMin2Mask = 96
    /\ scan[q].traitsMin4Mask = 30

====
